---- MODULE Spec2Model ----
(***************************************************************************)
(* A model of the RTSP grid viewer: the stream workers and their manager   *)
(* (rtsp_stream_manager.cpp), the grid renderer with its per-slot frame     *)
(* handoff (video_renderer.cpp), and the discovery service that scans the  *)
(* local subnets for RTSP devices (stream_discovery.cpp).                  *)
(***************************************************************************)
EXTENDS Integers, Sequences, FiniteSets, TLC

(***************************************************************************)
(* Bounds of the model.                                                    *)
(***************************************************************************)
\* gst_parse_launch calls that return an element, over one run
MaxPipelines == 3
\* add_stream calls over one run
MaxAdds == 3
\* the renderer is constructed with 1..MaxStreams streams
MaxStreams == 5
\* on_new_sample calls over one run, all streams together, on such a grid
MaxGridSamples == 1
\* where the threads are interleaved at length: at most MaxSlots streams,
\* and MaxSamples calls of on_new_sample over one run
MaxSlots == 2
MaxSamples == 2
\* on_new_sample calls over one run on a renderer with a single slot
MaxCallbacks == 2
\* scan cycles the discovery worker begins over one run
MaxCycles == 2
\* worker threads spawned over one run of a service that is started again
MaxStarts == 2
\* 100 ms sleeps the worker of a service that is started again may take
\* over one run
MaxSleeps == 2
\* get_active_streams calls over one run
MaxReads == 1
\* calls on one CpuBackend over one run
MaxCalls == 5

VARIABLES
    gst,         \* the GStreamer elements created so far, indexed by handle
    stream,      \* an RtspStream constructed directly by a caller
    stream_alive,\* FALSE once that RtspStream has been destroyed
    streams_,    \* RtspStreamManager::streams_
    renderer_,   \* RtspStreamManager::renderer_ (FALSE: nullptr)
    mgr_alive,   \* FALSE once the manager has been destroyed
    last,        \* the last call: its name, its return value, what it found
    returned,    \* history: every slot index add_stream has returned
    since_clear, \* history: the slot indices returned since the last clear
    stop_log     \* history: what the last stop_all_streams did, in order

svars == <<gst, stream, stream_alive, streams_, renderer_, mgr_alive, last,
           returned, since_clear, stop_log>>

VARIABLES
    slots,       \* VideoRendererImpl::slots, slot i at position i + 1
    grid_cols,   \* VideoRendererImpl::grid_cols
    grid_rows,   \* VideoRendererImpl::grid_rows
    rpc,         \* where the render thread is inside render()
    ri,          \* render()'s loop index i
    fb,          \* render()'s fb_w, fb_h
    upload,      \* render()'s upload_buf, upload_w, upload_h
    mark,        \* history: the last completed push when render() copied
    tex_before,  \* history: the texture's size before render()'s upload
    prod,        \* the streaming threads, one per stream, inside on_new_sample
    nsamples,    \* history: on_new_sample calls so far
    budget,      \* how many on_new_sample calls this run may make
    latest,      \* history: per slot, the last push_frame that completed
    pass         \* history: what the current render() pass has done

rvars == <<slots, grid_cols, grid_rows, rpc, ri, fb, upload, mark,
           tex_before, prod, nsamples, budget, latest, pass>>

VARIABLES
    running_,            \* StreamDiscovery::running_
    discovered_streams_, \* StreamDiscovery::discovered_streams_
    streams_mutex_,      \* StreamDiscovery::streams_mutex_: who holds it
    discovery_thread_,   \* StreamDiscovery::discovery_thread_: "none" when not
                         \* joinable, else "running" or "finished"
    wpc,                 \* where the worker is inside discovery_worker()
    ifa,                 \* discovery_worker()'s position in the interface list
    host,                \* scan_network_range()'s loop variable
    tick,                \* the loop variable i of the wait between cycles
    now,                 \* std::chrono::steady_clock, in milliseconds
    net,                 \* the network around the program
    mpc,                 \* where the owner's thread is: "idle", or "join"
                         \* inside stop_discovery()
    dbudget,             \* what this run may have: cycles, worker threads,
                         \* time for the worker's sleeps, registry reads
    cycles,              \* history: scan cycles begun so far
    starts,              \* history: worker threads spawned so far
    seen,                \* history: the ips a probe found during this cycle
    dlast,               \* history: the last change made to the registry
    after_stop           \* history: what the worker did since running_ was
                         \* cleared: probes and sleeps, begun and finished

dvars == <<running_, discovered_streams_, streams_mutex_, discovery_thread_,
           wpc, ifa, host, tick, now, net, mpc, dbudget, cycles, starts, seen,
           dlast, after_stop>>

VARIABLES
    reader               \* a thread inside get_active_streams(): where it is,
                         \* the calls it has made, and what the last one saw
                         \* and returned

qvars == <<reader>>

VARIABLES
    backend,     \* a CpuBackend: model_path_, model_, interpreter_
    blast        \* history: the last call on the backend and what it returned

bvars == <<backend, blast>>

vars == <<svars, rvars, dvars, qvars, bvars>>

(***************************************************************************)
(* GStreamer, as far as RtspStream uses it.  An element is created with    *)
(* one reference in state NULL; gst_object_unref drops the reference.      *)
(***************************************************************************)
ParseOutcomes == {"ok", "error_null", "error_element"}

\* gst_parse_launch(pipeline_str, &error): the element (0: NULL) and whether
\* error was set.  A recoverable error sets error and still returns an element.
GstParseLaunch(g, has_appsink, outcome) ==
    IF outcome = "error_null"
    THEN [gst |-> g, element |-> 0, error |-> TRUE]
    ELSE [gst |-> Append(g, [state |-> "NULL", refs |-> 1,
                             appsink |-> has_appsink, connected |-> FALSE]),
          element |-> Len(g) + 1,
          error |-> (outcome = "error_element")]

\* gst_element_set_state(pipeline, state), when the change does not fail
GstSetState(g, h, st) == [g EXCEPT ![h].state = st]

\* gst_object_unref(pipeline)
GstUnref(g, h) == [g EXCEPT ![h].refs = @ - 1]

\* g_signal_connect(appsink, "new-sample", on_new_sample, this)
GstConnect(g, h) == [g EXCEPT ![h].connected = g[h].appsink]

(***************************************************************************)
(* RtspStream                                                              *)
(***************************************************************************)
\* RtspStream::RtspStream(url, slot, renderer)
NewRtspStream(url, slot, renderer) ==
    [url_ |-> url, slot_ |-> slot, pipeline_ |-> 0, playing_ |-> FALSE,
     renderer_ |-> renderer]

\* RtspStream::is_playing
is_playing(s) == s.playing_

\* RtspStream::start past its first test: build the pipeline and set it PLAYING
StartBuild(s, g, outcome, set_state_ok) ==
    LET r  == GstParseLaunch(g, s.renderer_, outcome)
        s1 == [s EXCEPT !.pipeline_ = r.element]
    IN  IF r.error
        THEN [stream |-> s1, gst |-> r.gst, ret |-> FALSE]
        ELSE LET g1 == IF s.renderer_ THEN GstConnect(r.gst, r.element) ELSE r.gst
             IN  IF ~set_state_ok
                 THEN [stream |-> [s1 EXCEPT !.pipeline_ = 0],
                       gst |-> GstUnref(g1, r.element), ret |-> FALSE]
                 ELSE [stream |-> [s1 EXCEPT !.playing_ = TRUE],
                       gst |-> GstSetState(g1, r.element, "PLAYING"),
                       ret |-> TRUE]

\* a start that lacks the test for a pipeline already built
StartAlwaysBuild(s, g, outcome, set_state_ok) ==
    StartBuild(s, g, outcome, set_state_ok)

\* RtspStream::start
RtspStreamStart(s, g, outcome, set_state_ok) ==
    IF s.pipeline_ # 0
    THEN [stream |-> s, gst |-> g, ret |-> TRUE]
    ELSE StartBuild(s, g, outcome, set_state_ok)

\* a stop that forgets to clear the handle it released
StopKeepHandle(s, g) ==
    [stream |-> [s EXCEPT !.playing_ = FALSE],
     gst |-> IF s.pipeline_ # 0
             THEN GstUnref(GstSetState(g, s.pipeline_, "NULL"), s.pipeline_)
             ELSE g]

\* RtspStream::stop
RtspStreamStop(s, g) ==
    [stream |-> [s EXCEPT !.pipeline_ = 0, !.playing_ = FALSE],
     gst |-> IF s.pipeline_ # 0
             THEN GstUnref(GstSetState(g, s.pipeline_, "NULL"), s.pipeline_)
             ELSE g]

(***************************************************************************)
(* RtspStreamManager                                                       *)
(***************************************************************************)
\* a slot taken after the push_back: one too many
AddStreamSlotAfterPush(ss) == Len(ss) + 1

\* a slot taken as the index of the last worker held
AddStreamSlotOfLast(ss) == IF Len(ss) = 0 THEN 0 ELSE Len(ss) - 1

\* add_stream: int slot = (int)streams_.size()
AddStreamSlot(ss) == Len(ss)

\* RtspStreamManager::add_stream: the worker it retains, and the slot returned
AddStreamCall(ss, g, renderer, url, outcome, set_state_ok) ==
    LET slot == AddStreamSlot(ss)
        r    == RtspStreamStart(NewRtspStream(url, slot, renderer), g,
                                outcome, set_state_ok)
    IN  [streams |-> Append(ss, r.stream), gst |-> r.gst, ret |-> slot,
         started |-> r.ret]

RECURSIVE StopEach(_, _, _)
\* for (auto& s : streams_) s->stop();  from position i on
StopEach(ss, g, i) ==
    IF i > Len(ss)
    THEN [streams |-> ss, gst |-> g, log |-> <<>>]
    ELSE LET r    == RtspStreamStop(ss[i], g)
             rest == StopEach([ss EXCEPT ![i] = r.stream], r.gst, i + 1)
         IN  [rest EXCEPT !.log = <<[ev |-> "stop", slot |-> ss[i].slot_]>> \o @]

RECURSIVE DestroyEach(_, _, _)
\* streams_.clear(): ~RtspStream, which calls stop(), for every worker
DestroyEach(ss, g, i) ==
    IF i > Len(ss) THEN g
    ELSE DestroyEach(ss, RtspStreamStop(ss[i], g).gst, i + 1)

\* a stop_all_streams that only clears, leaving the stopping to ~RtspStream
StopAllClearOnly(ss, g) ==
    [streams |-> <<>>,
     gst     |-> DestroyEach(ss, g, 1),
     log     |-> <<[ev |-> "clear", workers |-> ss]>>]

\* RtspStreamManager::stop_all_streams
StopAllCall(ss, g) ==
    LET stopped == StopEach(ss, g, 1)
    IN  [streams |-> <<>>,
         gst     |-> DestroyEach(stopped.streams, stopped.gst, 1),
         log     |-> Append(stopped.log,
                            [ev |-> "clear", workers |-> stopped.streams])]

(***************************************************************************)
(* The calls a program can make on a stream and on the manager.            *)
(***************************************************************************)
Urls == {"rtsp://cam/ch0", "rtsp://cam/ch1"}

\* an element can still be created within the bound
CanCreate(outcome) == outcome = "error_null" \/ Len(gst) < MaxPipelines

NoCall == [op |-> "none", ret |-> FALSE, pre |-> <<>>]

StreamStart(outcome, set_state_ok) ==
    /\ stream_alive
    /\ CanCreate(outcome)
    /\ LET r == RtspStreamStart(stream, gst, outcome, set_state_ok)
       IN  /\ stream' = r.stream
           /\ gst' = r.gst
           /\ last' = [op |-> "start", ret |-> r.ret,
                       pre |-> [stream |-> stream, elements |-> Len(gst)]]
    /\ UNCHANGED <<stream_alive, streams_, renderer_, mgr_alive, returned,
                   since_clear, stop_log, rvars, dvars, qvars, bvars>>

StreamStop ==
    /\ stream_alive
    /\ LET r == RtspStreamStop(stream, gst)
       IN  /\ stream' = r.stream
           /\ gst' = r.gst
           /\ last' = [op |-> "stop", ret |-> FALSE,
                       pre |-> [stream |-> stream, elements |-> Len(gst)]]
    /\ UNCHANGED <<stream_alive, streams_, renderer_, mgr_alive, returned,
                   since_clear, stop_log, rvars, dvars, qvars, bvars>>

\* RtspStream::~RtspStream
StreamDestroy ==
    /\ stream_alive
    /\ LET r == RtspStreamStop(stream, gst)
       IN  /\ stream' = r.stream
           /\ gst' = r.gst
           /\ last' = [op |-> "destroy", ret |-> FALSE,
                       pre |-> [stream |-> stream, elements |-> Len(gst)]]
    /\ stream_alive' = FALSE
    /\ UNCHANGED <<streams_, renderer_, mgr_alive, returned, since_clear,
                   stop_log, rvars, dvars, qvars, bvars>>

\* RtspStreamManager::set_renderer
SetRenderer(r) ==
    /\ mgr_alive
    /\ renderer_' = r
    /\ last' = [op |-> "set_renderer", ret |-> FALSE, pre |-> <<>>]
    /\ UNCHANGED <<gst, stream, stream_alive, streams_, mgr_alive, returned,
                   since_clear, stop_log, rvars, dvars, qvars, bvars>>

AddStream(url, outcome, set_state_ok) ==
    /\ mgr_alive
    /\ Len(returned) < MaxAdds
    /\ CanCreate(outcome)
    /\ LET r == AddStreamCall(streams_, gst, renderer_, url, outcome, set_state_ok)
       IN  /\ streams_' = r.streams
           /\ gst' = r.gst
           /\ last' = [op |-> "add_stream", ret |-> r.ret,
                       pre |-> [streams |-> streams_, started |-> r.started]]
           /\ returned' = Append(returned, r.ret)
           /\ since_clear' = Append(since_clear, r.ret)
    /\ UNCHANGED <<stream, stream_alive, renderer_, mgr_alive, stop_log, rvars, dvars, qvars, bvars>>

StopAllStreams ==
    /\ mgr_alive
    /\ LET r == StopAllCall(streams_, gst)
       IN  /\ streams_' = r.streams
           /\ gst' = r.gst
           /\ stop_log' = r.log
           /\ last' = [op |-> "stop_all_streams", ret |-> FALSE,
                       pre |-> [streams |-> streams_]]
    /\ since_clear' = <<>>
    /\ UNCHANGED <<stream, stream_alive, renderer_, mgr_alive, returned, rvars, dvars, qvars, bvars>>

\* RtspStreamManager::~RtspStreamManager
ManagerDestroy ==
    /\ mgr_alive
    /\ LET r == StopAllCall(streams_, gst)
       IN  /\ streams_' = r.streams
           /\ gst' = r.gst
           /\ stop_log' = r.log
           /\ last' = [op |-> "destroy_manager", ret |-> FALSE,
                       pre |-> [streams |-> streams_]]
    /\ since_clear' = <<>>
    /\ mgr_alive' = FALSE
    /\ UNCHANGED <<stream, stream_alive, renderer_, returned, rvars, dvars, qvars, bvars>>

(***************************************************************************)
(* VideoRenderer                                                           *)
(***************************************************************************)
\* (int)std::ceil(std::sqrt((double)n))
CeilSqrt(n) == CHOOSE c \in 0..n : c * c >= n /\ \A d \in 0..(c - 1) : d * d < n

\* (int)std::ceil((double)a / b), for a >= 0 and b > 0
CeilDiv(a, b) == (a + b - 1) \div b

\* a grid sized with the square root rounded down
GridColsFloor(n) == CHOOSE c \in 1..n : c * c <= n /\ (c + 1) * (c + 1) > n

\* VideoRenderer::VideoRenderer: impl_->grid_cols
GridCols(n) == CeilSqrt(n)

\* VideoRenderer::VideoRenderer: impl_->grid_rows
GridRows(n) == CeilDiv(n, GridCols(n))

\* struct StreamSlot, as constructed; tex_data is what the texture holds
NewSlot ==
    [tex_width |-> 0, tex_height |-> 0, tex_data |-> <<>>,
     mutex |-> "free",
     pending_frame |-> <<>>, pending_width |-> 0, pending_height |-> 0,
     frame_dirty |-> FALSE]

\* the first n bytes of a buffer: the range [data, data + n)
Take(data, n) == SubSeq(data, 1, n)

\* a push_frame that keeps the frame already waiting
PendingAssignIfClean(s, data, width, height) ==
    IF s.frame_dirty THEN s
    ELSE [s EXCEPT !.pending_frame = Take(data, width * height * 3)]

\* push_frame: s.pending_frame.assign(data, data + width * height * 3)
PendingAssign(s, data, width, height) ==
    [s EXCEPT !.pending_frame = Take(data, width * height * 3)]

\* a push_frame that marks the frame without recording its size
PendingMetaKeepSize(s, width, height) == [s EXCEPT !.frame_dirty = TRUE]

\* push_frame: the dimensions and the dirty flag
PendingMeta(s, width, height) ==
    [s EXCEPT !.pending_width = width, !.pending_height = height,
              !.frame_dirty = TRUE]

\* a push_frame whose range test lets the index N through
SlotInRangeInclusive(slot, ss) == ~(slot < 0 \/ slot > Len(ss))

\* push_frame: if (slot < 0 || slot >= (int)impl_->slots.size()) return;
SlotInRange(slot, ss) == ~(slot < 0 \/ slot >= Len(ss))

\* render(): the locals of one loop iteration, as declared
NoUpload == [buf |-> <<>>, w |-> 0, h |-> 0, kind |-> "none"]

\* render(): the block under the slot's lock; what is copied out
CopyOut(s) ==
    IF s.frame_dirty
    THEN [buf |-> s.pending_frame, w |-> s.pending_width,
          h |-> s.pending_height, kind |-> "none"]
    ELSE NoUpload

\* a render() that keeps the frame marked as waiting after copying it out
AfterCopyKeepDirty(s) == s

\* render(): the slot after the block under its lock
AfterCopy(s) == [s EXCEPT !.frame_dirty = FALSE]

\* a render() that always updates the texture in place
UploadKindNeverAlloc(s, u) == IF u.buf = <<>> THEN "none" ELSE "sub"

\* render(): which upload is made for a copied buffer
UploadKind(s, u) ==
    IF u.buf = <<>> THEN "none"
    ELSE IF u.w # s.tex_width \/ u.h # s.tex_height THEN "alloc"
    ELSE "sub"

\* render(): the slot after glTexImage2D or glTexSubImage2D
AfterUpload(s, u) ==
    IF UploadKind(s, u) = "none" THEN s
    ELSE IF UploadKind(s, u) = "alloc"
    THEN [s EXCEPT !.tex_data = u.buf, !.tex_width = u.w, !.tex_height = u.h]
    ELSE [s EXCEPT !.tex_data = u.buf]

\* a render() whose skip of an empty slot leaves the loop
AfterSlotBreak(i, n, skipped) ==
    IF skipped THEN "swap" ELSE IF i + 1 < n THEN "lock" ELSE "swap"

\* render(): ++i and the loop test, after a slot drawn or skipped by continue
AfterSlot(i, n, skipped) == IF i + 1 < n THEN "lock" ELSE "swap"

\* a render() that draws every slot
NeverSkipDraw(s) == FALSE

\* render(): if (s.tex_width == 0) continue;
SkipDraw(s) == s.tex_width = 0

\* render(): cell_w, cell_h
CellW(fb_w, cols) == fb_w \div cols
CellH(fb_h, rows) == fb_h \div rows

\* a viewport without the vertical flip: row 0 at y = 0
ViewportUnflipped(i, cols, rows, cell_w, cell_h) ==
    [x |-> (i % cols) * cell_w,
     y |-> (i \div cols) * cell_h,
     w |-> cell_w, h |-> cell_h]

\* render(): the glViewport of slot i
Viewport(i, cols, rows, cell_w, cell_h) ==
    [x |-> (i % cols) * cell_w,
     y |-> (rows - 1 - (i \div cols)) * cell_h,
     w |-> cell_w, h |-> cell_h]

(***************************************************************************)
(* The streaming threads: on_new_sample and the push_frame it calls.       *)
(***************************************************************************)
\* the bytes of the k-th decoded frame: n bytes, each of value k
Data(k, n) == [j \in 1..n |-> k]

\* the sizes the caps of a decoded sample can state: <<width, height>>
FrameSizes == {<<0, 0>>, <<0, 1>>, <<1, 0>>, <<1, 1>>, <<2, 1>>, <<1, 2>>}

\* what gst_app_sink_pull_sample and gst_buffer_map can hand the callback
Samples ==
    {[present |-> pr, width |-> sz[1], height |-> sz[2], map_ok |-> ok] :
        pr \in BOOLEAN, sz \in FrameSizes, ok \in BOOLEAN}

\* a streaming thread outside the callback; ret is what its last call returned
Idle == [pc |-> "idle", w |-> 0, h |-> 0, data |-> <<>>, ret |-> "none"]
Returned == [Idle EXCEPT !.ret = "GST_FLOW_OK"]

\* no push yet; no slot processed yet
NoFrame == [data |-> <<>>, w |-> 0, h |-> 0, since |-> 0]
NoViewport == [x |-> 0, y |-> 0, w |-> 0, h |-> 0]
NoEvent ==
    [slot |-> -1, upload |-> NoUpload, mark |-> NoFrame,
     tex_before |-> [w |-> 0, h |-> 0], tex_after |-> [w |-> 0, h |-> 0],
     drawn |-> FALSE, viewport |-> NoViewport, shown |-> <<>>]
NoPass == [order |-> <<>>, swapped |-> FALSE, ev |-> NoEvent]

\* an on_new_sample that lets a frame through unless a dimension is negative
HasSizeNonNegative(width, height) == width >= 0 /\ height >= 0

\* on_new_sample: if (width > 0 && height > 0)
HasSize(width, height) == width > 0 /\ height > 0

\* on_new_sample up to its call of push_frame; push_frame's range test.  On
\* every path that does not reach the lock the callback has returned.
OnNewSample(p, sample) ==
    /\ prod[p].pc = "idle"
    /\ nsamples < budget
    /\ nsamples' = nsamples + 1
    /\ IF /\ sample.present
          /\ HasSize(sample.width, sample.height)
          /\ sample.map_ok
          /\ SlotInRange(p, slots)
       THEN prod' = [prod EXCEPT ![p] =
                [pc |-> "lock", w |-> sample.width, h |-> sample.height,
                 data |-> Data(nsamples + 1, sample.width * sample.height * 3),
                 ret |-> "none"]]
       ELSE prod' = [prod EXCEPT ![p] = Returned]
    /\ UNCHANGED <<slots, grid_cols, grid_rows, rpc, ri, fb, upload, mark,
                   tex_before, latest, pass, budget, svars, dvars, qvars, bvars>>

\* a push_frame that locks one mutex for all slots
LockedSlotFirst(slot) == 1

\* push_frame(slot): the position in slots of the slot whose mutex it locks
LockedSlot(slot) == slot + 1

\* push_frame: std::lock_guard<std::mutex> lock(s.mutex)
PushLock(p) ==
    /\ prod[p].pc = "lock"
    /\ slots[LockedSlot(p)].mutex = "free"
    /\ slots' = [slots EXCEPT ![LockedSlot(p)].mutex = "producer"]
    /\ prod' = [prod EXCEPT ![p].pc = "assign"]
    /\ UNCHANGED <<grid_cols, grid_rows, rpc, ri, fb, upload, mark, tex_before,
                   nsamples, latest, pass, budget, svars, dvars, qvars, bvars>>

PushAssign(p) ==
    /\ prod[p].pc = "assign"
    /\ slots' = [slots EXCEPT ![p + 1] =
                    PendingAssign(@, prod[p].data, prod[p].w, prod[p].h)]
    /\ prod' = [prod EXCEPT ![p].pc = "meta"]
    /\ UNCHANGED <<grid_cols, grid_rows, rpc, ri, fb, upload, mark, tex_before,
                   nsamples, latest, pass, budget, svars, dvars, qvars, bvars>>

\* push_frame's last three assignments and its return, which unlocks
PushMeta(p) ==
    /\ prod[p].pc = "meta"
    /\ slots' = [i \in DOMAIN slots |->
                    LET s == IF i = p + 1
                             THEN PendingMeta(slots[i], prod[p].w, prod[p].h)
                             ELSE slots[i]
                    IN  IF i = LockedSlot(p) THEN [s EXCEPT !.mutex = "free"]
                        ELSE s]
    /\ latest' = [latest EXCEPT ![p + 1] =
                     [data |-> prod[p].data, w |-> prod[p].w, h |-> prod[p].h,
                      since |-> @.since + 1]]
    /\ prod' = [prod EXCEPT ![p] = Returned]
    /\ UNCHANGED <<grid_cols, grid_rows, rpc, ri, fb, upload, mark, tex_before,
                   nsamples, pass, budget, svars, dvars, qvars, bvars>>

(***************************************************************************)
(* The render thread: one render() call, slot by slot.                     *)
(***************************************************************************)
\* glfwCreateWindow(1280, 720, ...)
WindowWidth == 1280
WindowHeight == 720

\* what glfwGetFramebufferSize can report: the window as created, or resized
FbSizes == {<<WindowWidth, WindowHeight>>, <<7, 5>>}

\* render() down to its loop
RenderBegin(size) ==
    /\ rpc = "idle"
    /\ fb' = [w |-> size[1], h |-> size[2]]
    /\ ri' = 0
    /\ pass' = NoPass
    /\ rpc' = IF 0 < Len(slots) THEN "lock" ELSE "swap"
    /\ UNCHANGED <<slots, grid_cols, grid_rows, upload, mark, tex_before, prod,
                   nsamples, latest, budget, svars, dvars, qvars, bvars>>

\* std::lock_guard<std::mutex> lock(s.mutex)
RenderLock ==
    /\ rpc = "lock"
    /\ slots[ri + 1].mutex = "free"
    /\ slots' = [slots EXCEPT ![ri + 1].mutex = "render"]
    /\ pass' = [pass EXCEPT !.ev = NoEvent]
    /\ rpc' = "copy"
    /\ UNCHANGED <<grid_cols, grid_rows, ri, fb, upload, mark, tex_before, prod,
                   nsamples, latest, budget, svars, dvars, qvars, bvars>>

\* a render() whose lock_guard lives until the end of the loop body
RenderKeepsLock(s) == s

\* the closing brace of the block under the lock, where the lock_guard ends
RenderUnlock(s) == [s EXCEPT !.mutex = "free"]

\* the block under the lock, and the unlock at its end
RenderCopy ==
    /\ rpc = "copy"
    /\ upload' = CopyOut(slots[ri + 1])
    /\ slots' = [slots EXCEPT ![ri + 1] = RenderUnlock(AfterCopy(@))]
    /\ mark' = latest[ri + 1]
    /\ latest' = [latest EXCEPT ![ri + 1].since = 0]
    /\ rpc' = "upload"
    /\ UNCHANGED <<grid_cols, grid_rows, ri, fb, tex_before, prod, nsamples,
                   pass, budget, svars, dvars, qvars, bvars>>

\* if (!upload_buf.empty()) { ... }
RenderUpload ==
    /\ rpc = "upload"
    /\ upload' = [upload EXCEPT !.kind = UploadKind(slots[ri + 1], upload)]
    /\ tex_before' = [w |-> slots[ri + 1].tex_width,
                      h |-> slots[ri + 1].tex_height]
    /\ slots' = [slots EXCEPT ![ri + 1] = AfterUpload(@, upload)]
    /\ rpc' = "draw"
    /\ UNCHANGED <<grid_cols, grid_rows, ri, fb, mark, prod, nsamples, latest,
                   pass, budget, svars, dvars, qvars, bvars>>

\* the rest of the loop body: skip the slot, or draw it in its viewport
RenderDraw ==
    /\ rpc = "draw"
    /\ LET s     == slots[ri + 1]
           drawn == ~SkipDraw(s)
           vp    == Viewport(ri, grid_cols, grid_rows,
                             CellW(fb.w, grid_cols), CellH(fb.h, grid_rows))
       IN  pass' = [pass EXCEPT
                      !.order = Append(@, ri),
                      !.ev = [slot |-> ri, upload |-> upload, mark |-> mark,
                              tex_before |-> tex_before,
                              tex_after |-> [w |-> s.tex_width,
                                             h |-> s.tex_height],
                              drawn |-> drawn,
                              viewport |-> IF drawn THEN vp ELSE NoViewport,
                              shown |-> IF drawn THEN s.tex_data ELSE <<>>]]
    /\ upload' = NoUpload
    /\ mark' = NoFrame
    /\ tex_before' = [w |-> 0, h |-> 0]
    /\ ri' = ri + 1
    /\ rpc' = AfterSlot(ri, Len(slots), SkipDraw(slots[ri + 1]))
    /\ UNCHANGED <<slots, grid_cols, grid_rows, fb, prod, nsamples, latest,
                   budget, svars, dvars, qvars, bvars>>

\* glfwSwapBuffers(impl_->window)
RenderSwap ==
    /\ rpc = "swap"
    /\ pass' = [pass EXCEPT !.swapped = TRUE, !.ev = NoEvent]
    /\ fb' = [w |-> 0, h |-> 0]
    /\ rpc' = "idle"
    /\ UNCHANGED <<slots, grid_cols, grid_rows, ri, upload, mark, tex_before,
                   prod, nsamples, latest, budget, svars, dvars, qvars, bvars>>

(***************************************************************************)
(* StreamDiscovery: the registry and the pure steps of a scan.             *)
(***************************************************************************)
\* static const int STREAM_TIMEOUT_MS, DISCOVERY_INTERVAL_MS
STREAM_TIMEOUT_MS == 60000
DISCOVERY_INTERVAL_MS == 30000

\* the wait between cycles sleeps this long between two tests of running_
SleepStepMs == 100

\* probe_rtsp_endpoint: timeout.tv_sec = 2, in milliseconds
ProbeTimeoutMs == 2000

\* discovery_worker: scan_network_range(subnet, 1, 254)
StartHost == 1
EndHost == 254

\* StreamInfo::StreamInfo(url, name, ip), constructed at time t
NewStreamInfo(url, name, ip, t) ==
    [rtsp_url |-> url, device_name |-> name, device_ip |-> ip,
     last_seen |-> t, is_active |-> TRUE]

\* inet_ntoa(addr) cut before its last dot: the first three octets
Subnet(addr) ==
    ToString(addr[1]) \o "." \o ToString(addr[2]) \o "." \o ToString(addr[3])

\* scan_network_range: base_ip + "." + std::to_string(host)
HostIp(base_ip, h) == base_ip \o "." \o ToString(h)

\* scan_network_range: "rtsp://" + ip + ":554/"
RtspUrl(ip) == "rtsp://" \o ip \o ":554/"

\* scan_network_range: "RTSP Device (" + ip + ")"
DeviceName(ip) == "RTSP Device (" \o ip \o ")"

\* discovery_worker: (ip & 0xFF000000) == 0x7F000000
IsLoopback(addr) == addr[1] = 127

\* discovery_worker: which entries of the interface list are scanned: those
\* with an address of family AF_INET and a netmask, loopback apart
Scanned(i) ==
    /\ i.has_addr /\ i.family = "AF_INET"
    /\ i.has_netmask
    /\ ~IsLoopback(i.addr)

\* a lookup that never finds the ip
FindIfNever(reg, ip) == 0

\* scan_network_range: std::find_if by device_ip; 0 stands for end()
FindIf(reg, ip) ==
    IF \E i \in DOMAIN reg : reg[i].device_ip = ip
    THEN CHOOSE i \in DOMAIN reg :
             /\ reg[i].device_ip = ip
             /\ \A j \in 1..(i - 1) : reg[j].device_ip # ip
    ELSE 0

\* a recording that refreshes last_seen and leaves is_active as it finds it
RecordProbeKeepFlag(reg, ip, t) ==
    LET it == FindIf(reg, ip)
    IN  IF it # 0
        THEN [reg EXCEPT ![it].last_seen = t]
        ELSE Append(reg, NewStreamInfo(RtspUrl(ip), DeviceName(ip), ip, t))

\* a recording that marks the entry active and keeps its old last_seen
RecordProbeKeepTime(reg, ip, t) ==
    LET it == FindIf(reg, ip)
    IN  IF it # 0
        THEN [reg EXCEPT ![it].is_active = TRUE]
        ELSE Append(reg, NewStreamInfo(RtspUrl(ip), DeviceName(ip), ip, t))

\* scan_network_range: what a successful probe of ip at time t does
RecordProbe(reg, ip, t) ==
    LET it == FindIf(reg, ip)
    IN  IF it # 0
        THEN [reg EXCEPT ![it].last_seen = t, ![it].is_active = TRUE]
        ELSE Append(reg, NewStreamInfo(RtspUrl(ip), DeviceName(ip), ip, t))

\* a cleanup that erases the stale entries
CleanupErase(reg, t) ==
    SelectSeq(reg, LAMBDA s :
        ~(s.is_active /\ t - s.last_seen > STREAM_TIMEOUT_MS))

\* a cleanup that never times an entry out
CleanupNever(reg, t) == reg

\* cleanup_stale_streams at time t
CleanupStale(reg, t) ==
    [i \in DOMAIN reg |->
        IF reg[i].is_active /\ t - reg[i].last_seen > STREAM_TIMEOUT_MS
        THEN [reg[i] EXCEPT !.is_active = FALSE]
        ELSE reg[i]]

\* get_active_streams: the entries with is_active, in registry order
GetActiveStreams(reg) == SelectSeq(reg, LAMBDA s : s.is_active)

\* a scan loop that probes on after a stop request
ScanLoopIgnoresStop(h, end_host, running) == h <= end_host

\* scan_network_range: host <= end_host && running_
ScanLoopTest(h, end_host, running) == h <= end_host /\ running

\* discovery_worker: i < DISCOVERY_INTERVAL_MS / 100 && running_
SleepLoopTest(i, running) ==
    i < DISCOVERY_INTERVAL_MS \div SleepStepMs /\ running

(***************************************************************************)
(* The network: what getifaddrs lists and how a connect to port 554 ends.  *)
(***************************************************************************)
Lo   == [has_addr |-> TRUE, family |-> "AF_INET", has_netmask |-> TRUE,
         addr |-> <<127, 0, 0, 1>>]
Pkt  == [has_addr |-> TRUE, family |-> "AF_PACKET", has_netmask |-> TRUE,
         addr |-> <<0, 0, 0, 0>>]
Eth  == [has_addr |-> TRUE, family |-> "AF_INET", has_netmask |-> TRUE,
         addr |-> <<192, 168, 1, 10>>]
Wlan == [has_addr |-> TRUE, family |-> "AF_INET", has_netmask |-> TRUE,
         addr |-> <<10, 0, 0, 5>>]
\* an AF_INET entry whose ifa_netmask is null
Tun  == [has_addr |-> TRUE, family |-> "AF_INET", has_netmask |-> FALSE,
         addr |-> <<172, 16, 0, 9>>]

\* one subnet whose absent hosts stay silent until the connect times out, and
\* two subnets whose absent hosts refuse at once.  no_socket are the hosts
\* during whose probe the process may be out of descriptors, so that socket()
\* fails.
Networks ==
    { [ifaces |-> <<Lo, Eth>>, absent_ms |-> ProbeTimeoutMs,
       devices |-> {"192.168.1.1", "192.168.1.254"},
       no_socket |-> {"192.168.1.253"}],
      [ifaces |-> <<Lo, Pkt, Tun, Eth, Wlan>>, absent_ms |-> 0,
       devices |-> {"192.168.1.1"}, no_socket |-> {}] }

\* probe_rtsp_endpoint(ip): whether it returned true, and how long it took.
\* When socket() fails it returns false at once.  Otherwise a device answers
\* the connect at once or is down; a host that is down or absent takes what
\* the network makes an unanswered connect take.
ProbeOutcomes(n, ip) ==
    (IF ip \in n.no_socket THEN {[ok |-> FALSE, ms |-> 0]} ELSE {}) \cup
    {[ok |-> FALSE, ms |-> n.absent_ms]} \cup
    (IF ip \in n.devices THEN {[ok |-> TRUE, ms |-> 0]} ELSE {})

NoChange == [kind |-> "none", ip |-> "", pre |-> <<>>, at |-> 0, seen |-> {}]
\* since running_ was cleared: probes begun and finished, sleeps begun and
\* finished
NoStop == [begun |-> 0, done |-> 0, sleeps |-> 0, slept |-> 0]

\* the longest a cycle can take: every probe of two subnets times out
CycleMs == 2 * EndHost * ProbeTimeoutMs + DISCOVERY_INTERVAL_MS

\* one worker thread, MaxCycles cycles, however long they take, no reader
OneRun == [cycles |-> MaxCycles, starts |-> 1, until |-> MaxCycles * CycleMs,
           reads |-> 0]
\* MaxStarts worker threads, followed for MaxSleeps sleeps
Restarted == [cycles |-> MaxCycles, starts |-> MaxStarts,
              until |-> MaxSleeps * SleepStepMs, reads |-> 0]
\* one worker thread and one cycle, however long it takes
OneCycle == [cycles |-> 1, starts |-> 1, until |-> CycleMs, reads |-> 0]
\* one worker thread and one cycle, beside a thread that reads the registry
WithReader == [cycles |-> 1, starts |-> 1, until |-> CycleMs,
               reads |-> MaxReads]
\* no discovery at all
NoRun == [cycles |-> 0, starts |-> 0, until |-> 0, reads |-> 0]

(***************************************************************************)
(* The owner's thread: start_discovery and stop_discovery.                 *)
(***************************************************************************)
\* start_discovery: whether the call goes on to spawn a worker
StartAlwaysSpawns(running) == TRUE

StartSpawns(running) == ~running

\* start_discovery; assigning a new thread to a std::thread that is still
\* joinable calls std::terminate
StartDiscovery ==
    /\ mpc = "idle"
    /\ IF ~StartSpawns(running_)
       THEN UNCHANGED <<running_, discovery_thread_, wpc, mpc, starts,
                        after_stop>>
       ELSE /\ starts < dbudget.starts
            /\ running_' = TRUE
            /\ starts' = starts + 1
            /\ after_stop' = NoStop
            /\ IF discovery_thread_ = "none"
               THEN /\ discovery_thread_' = "running"
                    /\ wpc' = "top"
                    /\ mpc' = mpc
               ELSE /\ discovery_thread_' = "terminate"
                    /\ wpc' = "aborted"
                    /\ mpc' = "aborted"
    /\ UNCHANGED <<discovered_streams_, streams_mutex_, ifa, host, tick, now,
                   net, dbudget, cycles, seen, dlast, svars, rvars, qvars,
                   bvars>>

\* stop_discovery up to its join
StopDiscovery ==
    /\ mpc = "idle"
    /\ IF ~running_
       THEN UNCHANGED <<running_, mpc, after_stop>>
       ELSE /\ running_' = FALSE
            /\ after_stop' = NoStop
            /\ mpc' = IF discovery_thread_ # "none" THEN "join" ELSE "idle"
    /\ UNCHANGED <<discovered_streams_, streams_mutex_, discovery_thread_, wpc,
                   ifa, host, tick, now, net, dbudget, cycles, starts, seen,
                   dlast, svars, rvars, qvars, bvars>>

\* discovery_thread_.join() returns once the worker has left discovery_worker
StopJoin ==
    /\ mpc = "join"
    /\ discovery_thread_ = "finished"
    /\ discovery_thread_' = "none"
    /\ wpc' = "none"
    /\ mpc' = "idle"
    /\ UNCHANGED <<running_, discovered_streams_, streams_mutex_, ifa, host,
                   tick, now, net, dbudget, cycles, starts, seen, dlast,
                   after_stop, svars, rvars, qvars, bvars>>

(***************************************************************************)
(* The worker thread: discovery_worker, statement by statement.            *)
(***************************************************************************)
\* while (running_): leave, or begin a cycle with getifaddrs
WorkerTop(ifaddrs_ok) ==
    /\ wpc = "top"
    /\ IF ~running_
       THEN /\ wpc' = "done"
            /\ discovery_thread_' = "finished"
            /\ UNCHANGED <<ifa, cycles, seen>>
       ELSE /\ cycles < dbudget.cycles
            /\ cycles' = cycles + 1
            /\ seen' = {}
            /\ IF ifaddrs_ok
               THEN wpc' = "ifa" /\ ifa' = 1
               ELSE wpc' = "cleanup" /\ ifa' = 0
            /\ UNCHANGED discovery_thread_
    /\ UNCHANGED <<running_, discovered_streams_, streams_mutex_, host, tick,
                   now, net, mpc, dbudget, starts, dlast, after_stop, svars,
                   rvars, qvars, bvars>>

\* for (ifa = ifaddrs_ptr; ifa != nullptr; ifa = ifa->ifa_next): one entry
WorkerIfa ==
    /\ wpc = "ifa"
    /\ IF ifa > Len(net.ifaces)
       THEN wpc' = "cleanup" /\ ifa' = 0 /\ host' = 0
       ELSE IF Scanned(net.ifaces[ifa])
       THEN wpc' = "scan" /\ host' = StartHost /\ ifa' = ifa
       ELSE wpc' = "ifa" /\ ifa' = ifa + 1 /\ host' = 0
    /\ UNCHANGED <<running_, discovered_streams_, streams_mutex_,
                   discovery_thread_, tick, now, net, mpc, dbudget, cycles,
                   starts, seen, dlast, after_stop, svars, rvars, qvars, bvars>>

\* scan_network_range: the loop test, and the return when it fails
WorkerScanTest ==
    /\ wpc = "scan"
    /\ IF ScanLoopTest(host, EndHost, running_)
       THEN /\ wpc' = "probe"
            /\ after_stop' = IF running_ THEN after_stop
                             ELSE [after_stop EXCEPT !.begun = @ + 1]
            /\ UNCHANGED <<ifa, host>>
       ELSE /\ wpc' = "ifa"
            /\ ifa' = ifa + 1
            /\ host' = 0
            /\ UNCHANGED after_stop
    /\ UNCHANGED <<running_, discovered_streams_, streams_mutex_,
                   discovery_thread_, tick, now, net, mpc, dbudget, cycles,
                   starts, seen, dlast, svars, rvars, qvars, bvars>>

\* probe_rtsp_endpoint(ip), which holds no lock; a failed probe ends the
\* loop body
WorkerProbe(outcome) ==
    /\ wpc = "probe"
    /\ outcome \in ProbeOutcomes(net, HostIp(Subnet(net.ifaces[ifa].addr), host))
    /\ now' = now + outcome.ms
    /\ after_stop' = IF running_ THEN after_stop
                     ELSE [after_stop EXCEPT !.done = @ + 1]
    /\ IF outcome.ok
       THEN wpc' = "found" /\ host' = host
       ELSE wpc' = "scan" /\ host' = host + 1
    /\ UNCHANGED <<running_, discovered_streams_, streams_mutex_,
                   discovery_thread_, ifa, tick, net, mpc, dbudget, cycles,
                   starts, seen, dlast, svars, rvars, qvars, bvars>>

\* scan_network_range: std::lock_guard<std::mutex> lock(streams_mutex_)
WorkerFoundLock ==
    /\ wpc = "found"
    /\ streams_mutex_ = "free"
    /\ streams_mutex_' = "worker"
    /\ wpc' = "record"
    /\ UNCHANGED <<running_, discovered_streams_, discovery_thread_, ifa, host,
                   tick, now, net, mpc, dbudget, cycles, starts, seen, dlast,
                   after_stop, svars, rvars, qvars, bvars>>

\* scan_network_range: update the entry or add one, and unlock
WorkerRecord ==
    /\ wpc = "record"
    /\ LET ip == HostIp(Subnet(net.ifaces[ifa].addr), host)
       IN  /\ discovered_streams_' = RecordProbe(discovered_streams_, ip, now)
           /\ seen' = seen \cup {ip}
           /\ dlast' = [kind |-> IF FindIf(discovered_streams_, ip) # 0
                                 THEN "update" ELSE "insert",
                        ip |-> ip, pre |-> discovered_streams_, at |-> now,
                        seen |-> seen \cup {ip}]
    /\ streams_mutex_' = "free"
    /\ host' = host + 1
    /\ wpc' = "scan"
    /\ UNCHANGED <<running_, discovery_thread_, ifa, tick, now, net, mpc,
                   dbudget, cycles, starts, after_stop, svars, rvars, qvars, bvars>>

\* cleanup_stale_streams: std::lock_guard<std::mutex> lock(streams_mutex_)
WorkerCleanupLock ==
    /\ wpc = "cleanup"
    /\ streams_mutex_ = "free"
    /\ streams_mutex_' = "worker"
    /\ wpc' = "sweep"
    /\ UNCHANGED <<running_, discovered_streams_, discovery_thread_, ifa, host,
                   tick, now, net, mpc, dbudget, cycles, starts, seen, dlast,
                   after_stop, svars, rvars, qvars, bvars>>

\* cleanup_stale_streams: the sweep and the unlock
WorkerCleanup ==
    /\ wpc = "sweep"
    /\ discovered_streams_' = CleanupStale(discovered_streams_, now)
    /\ dlast' = [kind |-> "cleanup", ip |-> "", pre |-> discovered_streams_,
                 at |-> now, seen |-> seen]
    /\ seen' = {}
    /\ streams_mutex_' = "free"
    /\ tick' = 0
    /\ wpc' = "sleep"
    /\ UNCHANGED <<running_, discovery_thread_, ifa, host, now, net, mpc,
                   dbudget, cycles, starts, after_stop, svars, rvars, qvars, bvars>>

\* the wait before the next cycle: the loop test, which begins a sleep_for
\* of 100 ms or ends the wait
WorkerSleep ==
    /\ wpc = "sleep"
    /\ IF SleepLoopTest(tick, running_)
       THEN /\ now + SleepStepMs <= dbudget.until
            /\ wpc' = "sleeping"
            /\ tick' = tick
            /\ after_stop' = IF running_ THEN after_stop
                             ELSE [after_stop EXCEPT !.sleeps = @ + 1]
       ELSE /\ wpc' = "top"
            /\ tick' = 0
            /\ UNCHANGED after_stop
    /\ UNCHANGED <<running_, discovered_streams_, streams_mutex_,
                   discovery_thread_, ifa, host, now, net, mpc, dbudget,
                   cycles, starts, seen, dlast, svars, rvars, qvars, bvars>>

\* the wait before the next cycle: sleep_for(100 ms) returns, and ++i
WorkerSlept ==
    /\ wpc = "sleeping"
    /\ now' = now + SleepStepMs
    /\ tick' = tick + 1
    /\ wpc' = "sleep"
    /\ after_stop' = IF running_ THEN after_stop
                     ELSE [after_stop EXCEPT !.slept = @ + 1]
    /\ UNCHANGED <<running_, discovered_streams_, streams_mutex_,
                   discovery_thread_, ifa, host, net, mpc, dbudget, cycles,
                   starts, seen, dlast, svars, rvars, qvars, bvars>>

WorkerNext ==
    \/ \E ok \in BOOLEAN : WorkerTop(ok)
    \/ WorkerIfa
    \/ WorkerScanTest
    \/ \E ok \in BOOLEAN, ms \in {0, ProbeTimeoutMs} :
          WorkerProbe([ok |-> ok, ms |-> ms])
    \/ WorkerFoundLock
    \/ WorkerRecord
    \/ WorkerCleanupLock
    \/ WorkerCleanup
    \/ WorkerSleep
    \/ WorkerSlept

(***************************************************************************)
(* A thread that calls get_active_streams.                                 *)
(***************************************************************************)
\* no call of get_active_streams yet; held is the registry as it was when
\* the last call took the lock, view what that call has collected
NoReader == [pc |-> "idle", reads |-> 0, i |-> 0, held |-> <<>>,
             view |-> <<>>]

\* a get_active_streams that returns every entry
ReaderKeepsAll(entry) == TRUE

\* get_active_streams: if (stream.is_active)
ReaderKeeps(entry) == entry.is_active

\* the call of get_active_streams
ReaderCall ==
    /\ reader.pc = "idle"
    /\ reader.reads < dbudget.reads
    /\ reader' = [reader EXCEPT !.pc = "lock"]
    /\ UNCHANGED <<dvars, svars, rvars, bvars>>

\* get_active_streams: std::lock_guard<std::mutex> lock(streams_mutex_)
ReaderLock ==
    /\ reader.pc = "lock"
    /\ streams_mutex_ = "free"
    /\ streams_mutex_' = "reader"
    /\ reader' = [reader EXCEPT !.pc = "copy", !.i = 1,
                                !.held = discovered_streams_, !.view = <<>>]
    /\ UNCHANGED <<running_, discovered_streams_, discovery_thread_, wpc, ifa,
                   host, tick, now, net, mpc, dbudget, cycles, starts, seen,
                   dlast, after_stop, svars, rvars, bvars>>

\* get_active_streams: one entry of the loop, or the return, which unlocks
ReaderVisit ==
    /\ reader.pc = "copy"
    /\ IF reader.i <= Len(discovered_streams_)
       THEN /\ reader' = [reader EXCEPT
                            !.i = @ + 1,
                            !.view = IF ReaderKeeps(discovered_streams_[reader.i])
                                     THEN Append(@, discovered_streams_[reader.i])
                                     ELSE @]
            /\ UNCHANGED streams_mutex_
       ELSE /\ reader' = [reader EXCEPT !.pc = "idle", !.i = 0,
                                        !.reads = @ + 1]
            /\ streams_mutex_' = "free"
    /\ UNCHANGED <<running_, discovered_streams_, discovery_thread_, wpc, ifa,
                   host, tick, now, net, mpc, dbudget, cycles, starts, seen,
                   dlast, after_stop, svars, rvars, bvars>>

ReaderNext == ReaderCall \/ ReaderLock \/ ReaderVisit

\* StreamDiscovery::StreamDiscovery(), in network n
DiscoveryCtor(n, b) ==
    /\ running_ = FALSE
    /\ discovered_streams_ = <<>>
    /\ streams_mutex_ = "free"
    /\ discovery_thread_ = "none"
    /\ wpc = "none"
    /\ ifa = 0
    /\ host = 0
    /\ tick = 0
    /\ now = 0
    /\ net = n
    /\ mpc = "idle"
    /\ dbudget = b
    /\ cycles = 0
    /\ starts = 0
    /\ seen = {}
    /\ dlast = NoChange
    /\ after_stop = NoStop
    /\ reader = NoReader

(***************************************************************************)
(* CpuBackend.  A model is a handle with the number of the load that made  *)
(* it; an interpreter remembers the model it was built from, since it      *)
(* keeps pointers into that model's buffer.                                *)
(***************************************************************************)
NullModel == [null |-> TRUE, id |-> 0, bytes |-> 0]
NullInterpreter == [null |-> TRUE, model |-> 0, allocated |-> FALSE]

\* a CpuBackend as constructed: no path, no model, no interpreter
NewCpuBackend ==
    [model_path_ |-> "", model_ |-> NullModel,
     interpreter_ |-> NullInterpreter]

\* the model files around the program: one that is not there, one that uses
\* an operator the resolver lacks, one whose tensors cannot be allocated, one
\* that is sound
ModelPaths == {"missing.tflite", "badop.tflite", "dynamic.tflite",
               "good.tflite"}

\* tflite::FlatBufferModel::BuildFromFile(path) returns a model
FileLoads(path) == path \in {"badop.tflite", "dynamic.tflite", "good.tflite"}
\* the InterpreterBuilder leaves an interpreter (it resets the pointer when
\* it fails)
FileBuilds(path) == path \in {"dynamic.tflite", "good.tflite"}
\* Interpreter::AllocateTensors() returns kTfLiteOk
FileAllocates(path) == path = "good.tflite"

\* the size in bytes of input tensor 0 of the models: one RGB pixel
InputBytes(path) == IF FileLoads(path) THEN 3 ELSE 0

\* CpuBackend::set_model
SetModel(b, model_path) == [b EXCEPT !.model_path_ = model_path]

\* CpuBackend::prepare, the load being the id-th: the backend it leaves and
\* what it returns.  Assigning model_ destroys the model held before.
Prepare(b, id) ==
    LET loaded == IF FileLoads(b.model_path_)
                  THEN [null |-> FALSE, id |-> id,
                        bytes |-> InputBytes(b.model_path_)]
                  ELSE NullModel
        b1 == [b EXCEPT !.model_ = loaded]
        built == IF FileBuilds(b.model_path_)
                 THEN [null |-> FALSE, model |-> id, allocated |-> FALSE]
                 ELSE NullInterpreter
        b2 == [b1 EXCEPT !.interpreter_ = built]
    IN  IF loaded.null THEN [b |-> b1, ret |-> FALSE]
        ELSE IF built.null THEN [b |-> b2, ret |-> FALSE]
        ELSE IF ~FileAllocates(b.model_path_) THEN [b |-> b2, ret |-> FALSE]
        ELSE [b |-> [b2 EXCEPT !.interpreter_.allocated = TRUE],
              ret |-> TRUE]

\* CpuBackend::teardown
Teardown(b) ==
    [b EXCEPT !.interpreter_ = NullInterpreter, !.model_ = NullModel]

\* std::min<int>(in->bytes, width * height * 3)
CopyBytes(bytes, width, height) ==
    IF bytes < width * height * 3 THEN bytes ELSE width * height * 3

\* the interpreter's model has been destroyed
Dangling(b) ==
    /\ ~b.interpreter_.null
    /\ b.model_.null \/ b.model_.id # b.interpreter_.model

\* CpuBackend::process: what a call can do.  An interpreter whose model has
\* been destroyed reads freed memory in Invoke, which is undefined: the call
\* returns either value or the process dies.  Before AllocateTensors has
\* succeeded the input tensor has no buffer: a copy of one byte or more
\* writes through a null pointer, and Invoke fails otherwise.
ProcessOutcomes(b, width, height) ==
    IF b.interpreter_.null THEN {"false"}
    ELSE IF Dangling(b) THEN {"true", "false", "crash"}
    ELSE IF ~b.interpreter_.allocated
    THEN IF CopyBytes(b.model_.bytes, width, height) > 0
         THEN {"crash"} ELSE {"false"}
    ELSE {"true", "false"}

NoBackendCall == [op |-> "none", ret |-> "none", prepared |-> FALSE,
                  calls |-> 0]

\* CpuBackend::CpuBackend()
BackendCtor ==
    /\ backend = NewCpuBackend
    /\ blast = NoBackendCall

\* the caller of the backend makes another call
BackendCall ==
    /\ blast.ret # "crash"
    /\ blast.calls < MaxCalls

BackendSetModel(model_path) ==
    /\ BackendCall
    /\ backend' = SetModel(backend, model_path)
    /\ blast' = [blast EXCEPT !.op = "set_model", !.ret = "true",
                              !.calls = @ + 1]
    /\ UNCHANGED <<svars, rvars, dvars, qvars>>

BackendPrepare ==
    /\ BackendCall
    /\ LET r == Prepare(backend, blast.calls + 1)
       IN  /\ backend' = r.b
           /\ blast' = [op |-> "prepare",
                        ret |-> IF r.ret THEN "true" ELSE "false",
                        prepared |-> r.ret, calls |-> blast.calls + 1]
    /\ UNCHANGED <<svars, rvars, dvars, qvars>>

BackendTeardown ==
    /\ BackendCall
    /\ backend' = Teardown(backend)
    /\ blast' = [op |-> "teardown", ret |-> "none", prepared |-> FALSE,
                 calls |-> blast.calls + 1]
    /\ UNCHANGED <<svars, rvars, dvars, qvars>>

BackendProcess(width, height, out) ==
    /\ BackendCall
    /\ out \in ProcessOutcomes(backend, width, height)
    /\ blast' = [blast EXCEPT !.op = "process", !.ret = out, !.calls = @ + 1]
    /\ UNCHANGED <<backend, svars, rvars, dvars, qvars>>

\* no discovery service
NoDiscovery == DiscoveryCtor(CHOOSE n \in Networks : n.absent_ms = 0, NoRun)

(***************************************************************************)
(* The specifications.                                                     *)
(***************************************************************************)
\* the stream, the manager and GStreamer before any call
StreamCtor(with_renderer) ==
    /\ gst = <<>>
    /\ stream = NewRtspStream("rtsp://cam/ch0", 0, with_renderer)
    /\ stream_alive = TRUE
    /\ streams_ = <<>>
    /\ renderer_ = FALSE
    /\ mgr_alive = TRUE
    /\ last = NoCall
    /\ returned = <<>>
    /\ since_clear = <<>>
    /\ stop_log = <<>>

\* VideoRenderer::VideoRenderer(num_streams), with one stream more than slots
RendererCtor(num_streams, samples) ==
    /\ budget = samples
    /\ slots = [i \in 1..num_streams |-> NewSlot]
    /\ grid_cols = GridCols(num_streams)
    /\ grid_rows = GridRows(num_streams)
    /\ rpc = "idle"
    /\ ri = 0
    /\ fb = [w |-> 0, h |-> 0]
    /\ upload = NoUpload
    /\ mark = NoFrame
    /\ tex_before = [w |-> 0, h |-> 0]
    /\ prod = [p \in 0..num_streams |-> Idle]
    /\ nsamples = 0
    /\ latest = [i \in 1..num_streams |-> NoFrame]
    /\ pass = NoPass

\* one RtspStream, called directly
InitStream ==
    /\ \E with_renderer \in BOOLEAN : StreamCtor(with_renderer)
    /\ RendererCtor(1, 0)
    /\ NoDiscovery
    /\ BackendCtor

NextStream ==
    \/ \E o \in ParseOutcomes, ok \in BOOLEAN : StreamStart(o, ok)
    \/ StreamStop
    \/ StreamDestroy

SpecStream == InitStream /\ [][NextStream]_vars

\* one RtspStreamManager
InitManager ==
    /\ StreamCtor(FALSE)
    /\ RendererCtor(1, 0)
    /\ NoDiscovery
    /\ BackendCtor

NextManager ==
    \/ \E r \in BOOLEAN : SetRenderer(r)
    \/ \E u \in Urls, o \in ParseOutcomes, ok \in BOOLEAN : AddStream(u, o, ok)
    \/ StopAllStreams
    \/ ManagerDestroy

SpecManager == InitManager /\ [][NextManager]_vars

\* one VideoRenderer on a grid of up to MaxStreams cells
InitGrid ==
    /\ StreamCtor(TRUE)
    /\ \E n \in 1..MaxStreams : RendererCtor(n, MaxGridSamples)
    /\ NoDiscovery
    /\ BackendCtor

\* one VideoRenderer with few slots and more frames
InitRender ==
    /\ StreamCtor(TRUE)
    /\ \E n \in 1..MaxSlots : RendererCtor(n, MaxSamples)
    /\ NoDiscovery
    /\ BackendCtor

NextRender ==
    \/ \E p \in DOMAIN prod, s \in Samples : OnNewSample(p, s)
    \/ \E p \in DOMAIN prod : PushLock(p)
    \/ \E p \in DOMAIN prod : PushAssign(p)
    \/ \E p \in DOMAIN prod : PushMeta(p)
    \/ \E size \in FbSizes : RenderBegin(size)
    \/ RenderLock
    \/ RenderCopy
    \/ RenderUpload
    \/ RenderDraw
    \/ RenderSwap

SpecRender == InitRender /\ [][NextRender]_vars

SpecGrid == InitGrid /\ [][NextRender]_vars

\* one VideoRenderer with a single slot, a stream bound to it and a stream
\* bound to an index it does not have
InitCallback ==
    /\ StreamCtor(TRUE)
    /\ RendererCtor(1, MaxCallbacks)
    /\ NoDiscovery
    /\ BackendCtor

SpecCallback == InitCallback /\ [][NextRender]_vars

\* one StreamDiscovery, started once, in either network
InitDiscovery ==
    /\ StreamCtor(FALSE)
    /\ RendererCtor(1, 0)
    /\ \E n \in Networks : DiscoveryCtor(n, OneRun)
    /\ BackendCtor

NextDiscovery ==
    \/ StartDiscovery
    \/ StopDiscovery
    \/ StopJoin
    \/ WorkerNext

SpecDiscovery == InitDiscovery /\ [][NextDiscovery]_vars

\* the same, with a worker thread that is scheduled while it has a step to
\* take and every probe returning, and a join that returns once it can
\* a service on the network that refuses at once, stopped and started again
InitRestart ==
    /\ StreamCtor(FALSE)
    /\ RendererCtor(1, 0)
    /\ \E n \in Networks : n.absent_ms = 0 /\ DiscoveryCtor(n, Restarted)
    /\ BackendCtor

SpecRestart == InitRestart /\ [][NextDiscovery]_vars

\* one CpuBackend, called directly
InitBackend ==
    /\ StreamCtor(FALSE)
    /\ RendererCtor(1, 0)
    /\ NoDiscovery
    /\ BackendCtor

NextBackend ==
    \/ \E model_path \in ModelPaths : BackendSetModel(model_path)
    \/ BackendPrepare
    \/ BackendTeardown
    \/ \E sz \in FrameSizes, out \in {"true", "false", "crash"} :
          BackendProcess(sz[1], sz[2], out)

SpecBackend == InitBackend /\ [][NextBackend]_vars

\* a service with one worker, and a thread that reads the registry
InitReader ==
    /\ StreamCtor(FALSE)
    /\ RendererCtor(1, 0)
    /\ \E n \in Networks : DiscoveryCtor(n, WithReader)
    /\ BackendCtor

NextReader == NextDiscovery \/ ReaderNext

SpecReader == InitReader /\ [][NextReader]_vars

\* a service stopped during its first cycle or after it; every step of the
\* worker that can be taken is taken in the end (every probe and every sleep
\* returns, a free mutex is acquired), and so is the return of the join
InitDiscoveryLive ==
    /\ StreamCtor(FALSE)
    /\ RendererCtor(1, 0)
    /\ \E n \in Networks : DiscoveryCtor(n, OneCycle)
    /\ BackendCtor

SpecDiscoveryLive ==
    /\ InitDiscoveryLive
    /\ [][NextDiscovery]_vars
    /\ WF_vars(WorkerNext)
    /\ WF_vars(StopJoin)

(***************************************************************************)
(* The claims.                                                             *)
(***************************************************************************)
\* C1: latest frame wins.  When render() has handled a slot, then if pushes
\* to that slot completed since its previous drain, render() uploaded exactly
\* the buffer and the dimensions of the last of them, and that buffer is what
\* the slot shows; and render() uploads nothing else: an upload is always the
\* last push completed before the drain, whole, never an earlier frame.
C1_LatestFrameWins ==
    pass.ev.slot >= 0 =>
        LET e == pass.ev
            same == /\ e.upload.buf = e.mark.data
                    /\ e.upload.w = e.mark.w
                    /\ e.upload.h = e.mark.h
                    /\ e.shown = e.mark.data
                    /\ Len(e.upload.buf) = e.mark.w * e.mark.h * 3
                    /\ \A j \in DOMAIN e.upload.buf :
                          e.upload.buf[j] = e.upload.buf[1]
        IN  /\ e.mark.since > 0 => e.upload.kind # "none" /\ same
            /\ e.upload.kind # "none" => e.mark.since > 0 /\ same

\* C1's case: two pushes to one slot with no drain between them, then drained
C1_Witness ==
    /\ pass.ev.slot >= 0
    /\ pass.ev.mark.since >= 2
    /\ pass.ev.upload.kind # "none"
    /\ pass.ev.upload.buf = pass.ev.mark.data

\* C2: a slot that has received no frame is never drawn and its displayed
\* dimensions stay zero: when render() has handled a slot to which no push
\* had completed, it made no upload and no draw call for it, in every pass.
C2_EmptySlotNotDrawn ==
    /\ \A i \in DOMAIN slots :
          latest[i].data = <<>> =>
              /\ slots[i].tex_width = 0
              /\ slots[i].tex_height = 0
              /\ slots[i].tex_data = <<>>
    /\ (pass.ev.slot >= 0 /\ pass.ev.mark.data = <<>>) =>
          /\ ~pass.ev.drawn
          /\ pass.ev.upload.kind = "none"
          /\ pass.ev.tex_after = [w |-> 0, h |-> 0]

\* C2's case: a later pass, another slot already showing a frame, skips slot 1
C2_Witness ==
    /\ pass.ev.slot = 1
    /\ pass.ev.mark.data = <<>>
    /\ ~pass.ev.drawn
    /\ slots[1].tex_width > 0
    /\ latest[1].since = 0

\* C3: with N slots the grid has cols = ceil(sqrt(N)) and rows = ceil(N / cols),
\* so cols * rows >= N and 0 <= cols - rows <= 1 (N = 4: 2 x 2; N = 5: 3 x 2),
\* in every state: no push and no render pass changes cols, rows or N.
C3_GridLayout ==
    LET n == Len(slots)
    IN  /\ n \in 1..MaxStreams
        /\ DOMAIN prod = 0..n
        /\ grid_cols * grid_cols >= n
        /\ (grid_cols - 1) * (grid_cols - 1) < n
        /\ grid_rows * grid_cols >= n
        /\ (grid_rows - 1) * grid_cols < n
        /\ grid_cols - grid_rows \in {0, 1}
        /\ (n = 4 => grid_cols = 2 /\ grid_rows = 2)
        /\ (n = 5 => grid_cols = 3 /\ grid_rows = 2)

\* C3's case: five streams, after a push and a complete render pass
C3_Witness ==
    /\ Len(slots) = 5
    /\ grid_cols = 3 /\ grid_rows = 2
    /\ pass.swapped
    /\ \E i \in DOMAIN slots : slots[i].tex_width > 0

\* C4: a drawn slot i is drawn in the cell of column i % cols and row i / cols,
\* row 0 at the top: viewport x = col * cell_w, y = (rows - 1 - row) * cell_h,
\* size cell_w x cell_h, with cell_w = fb_w / cols and cell_h = fb_h / rows
\* rounded down; the cell lies inside the framebuffer; with five streams
\* slot 4 is in row 1, column 1.
C4_ViewportCell ==
    (pass.ev.slot >= 0 /\ pass.ev.drawn) =>
        LET i      == pass.ev.slot
            col    == i % grid_cols
            row    == i \div grid_cols
            cell_w == fb.w \div grid_cols
            cell_h == fb.h \div grid_rows
            vp     == pass.ev.viewport
        IN  /\ i < Len(slots)
            /\ vp.w = cell_w /\ vp.h = cell_h
            /\ vp.x = col * cell_w
            /\ vp.y = (grid_rows - 1 - row) * cell_h
            /\ vp.x >= 0 /\ vp.x + vp.w <= fb.w
            /\ vp.y >= 0 /\ vp.y + vp.h <= fb.h
            /\ (row = 0 => vp.y = (grid_rows - 1) * cell_h)
            /\ (Len(slots) = 5 /\ i = 4 => vp.x = cell_w /\ vp.y = 0)

\* C4's case: five streams on the 1280 x 720 window, slot 4 drawn
C4_Witness ==
    /\ Len(slots) = 5
    /\ pass.ev.slot = 4
    /\ pass.ev.drawn
    /\ pass.ev.viewport = [x |-> 426, y |-> 0, w |-> 426, h |-> 360]

\* C5: start() on a worker that already holds a pipeline returns true, builds
\* no pipeline, and leaves the worker's handle and playing flag as they were.
C5_StartIdempotent ==
    (last.op = "start" /\ last.pre.stream.pipeline_ # 0) =>
        /\ last.ret = TRUE
        /\ Len(gst) = last.pre.elements
        /\ stream.pipeline_ = last.pre.stream.pipeline_
        /\ stream.playing_ = last.pre.stream.playing_
        /\ stream = last.pre.stream

\* C5's case: start() called on a worker that is playing
C5_Witness ==
    /\ last.op = "start"
    /\ last.pre.stream.pipeline_ # 0
    /\ last.pre.stream.playing_
    /\ last.ret = TRUE

\* C6: a start() that fails, because the construction reported an error or
\* the change to PLAYING failed, returns false and leaves the worker Failed:
\* not playing, and holding no pipeline, so that it does not count as started.
C6_FailedStartLeavesFailed ==
    (last.op = "start" /\ last.ret = FALSE) =>
        /\ ~is_playing(stream)
        /\ stream.pipeline_ = 0

\* C7: after every stop(), from whatever state, the worker is not playing and
\* holds no pipeline; and every pipeline is released exactly once: an element
\* has one reference while a worker holds it and none afterwards, never less.
C7_StopLeavesStopped ==
    /\ (last.op \in {"stop", "destroy"}) =>
          /\ ~is_playing(stream)
          /\ stream.pipeline_ = 0
          /\ (last.pre.stream.pipeline_ # 0 =>
                 /\ gst[last.pre.stream.pipeline_].refs = 0
                 /\ gst[last.pre.stream.pipeline_].state = "NULL")
    /\ \A h \in DOMAIN gst :
          gst[h].refs = IF stream.pipeline_ = h THEN 1 ELSE 0

\* C7's case: stop() called again on a worker whose pipeline an earlier
\* stop() has released
C7_Witness ==
    /\ last.op = "stop"
    /\ last.pre.stream.pipeline_ = 0
    /\ \E h \in DOMAIN gst : gst[h].connected /\ gst[h].refs = 0

\* C8: add_stream returns the number of workers held before the call, binds
\* the new worker to that index, calls start() on it and keeps it whether or
\* not start() succeeded, leaving the workers already held as they were: the
\* worker at position i has slot index i - 1.
C8_AddStreamSequential ==
    /\ \A i \in DOMAIN streams_ : streams_[i].slot_ = i - 1
    /\ last.op = "add_stream" =>
          /\ last.ret = Len(last.pre.streams)
          /\ Len(streams_) = Len(last.pre.streams) + 1
          /\ SubSeq(streams_, 1, Len(streams_) - 1) = last.pre.streams
          /\ streams_[Len(streams_)].slot_ = last.ret
          /\ is_playing(streams_[Len(streams_)]) = last.pre.started

\* C8's case: a second worker whose start() failed is kept, with index 1
C8_Witness ==
    /\ last.op = "add_stream"
    /\ ~last.pre.started
    /\ Len(streams_) = 2
    /\ last.ret = 1

\* C9, as claimed: add_stream never returns a slot index twice, over any
\* sequence of add_stream and stop_all_streams calls.
C9_NeverReturnedTwice ==
    \A i, j \in DOMAIN returned : i # j => returned[i] # returned[j]

\* C9, amended: add_stream returns no slot index twice until the next
\* stop_all_streams, that is, while the workers it numbered are held; a
\* stop_all_streams empties the collection and the numbering restarts at 0.
C9_DistinctUntilCleared ==
    /\ \A i, j \in DOMAIN since_clear :
          i # j => since_clear[i] # since_clear[j]
    /\ Len(since_clear) = Len(streams_)
    /\ (last.op = "add_stream" /\ last.pre.streams = <<>>) => last.ret = 0

\* C9's case: two add_stream calls after a stop_all_streams that had a worker
C9_Witness ==
    /\ Len(returned) > Len(since_clear)
    /\ Len(since_clear) >= 2
    /\ last.op = "add_stream"

\* C10: stop_all_streams stops the workers held in registration order, and
\* clears the collection only then; when it returns the collection is empty,
\* every worker it held was stopped (not playing, no handle) when released,
\* and no pipeline is held any more.
C10_StopAllInOrder ==
    (last.op \in {"stop_all_streams", "destroy_manager"}) =>
        LET held == last.pre.streams
            n    == Len(held)
        IN  /\ streams_ = <<>>
            /\ Len(stop_log) = n + 1
            /\ \A i \in 1..n : stop_log[i] = [ev |-> "stop", slot |-> i - 1]
            /\ stop_log[n + 1].ev = "clear"
            /\ Len(stop_log[n + 1].workers) = n
            /\ \A i \in 1..n :
                  /\ stop_log[n + 1].workers[i].slot_ = held[i].slot_
                  /\ stop_log[n + 1].workers[i].pipeline_ = 0
                  /\ ~is_playing(stop_log[n + 1].workers[i])
            /\ \A h \in DOMAIN gst : gst[h].refs = 0
            /\ \A i \in 1..n : held[i].pipeline_ # 0 =>
                  gst[held[i].pipeline_].state = "NULL"

\* C10's case: stop_all_streams on a manager holding three playing workers
C10_Witness ==
    /\ last.op = "stop_all_streams"
    /\ Len(last.pre.streams) = 3
    /\ \A i \in 1..3 : is_playing(last.pre.streams[i])
    /\ streams_ = <<>>

\* C11: on_new_sample is a no-op on the slots when the decoded width or height
\* is not positive: it returns at once, without entering push_frame, and every
\* slot is as it was.  When both are positive and the buffer maps, push_frame
\* leaves the slot holding exactly that frame (buffer, width, height) with the
\* dirty flag set, whether or not the flag was set before.  The callback
\* returns GST_FLOW_OK on every path.
C11_CallbackEffect ==
    [][ /\ \A p \in {q \in DOMAIN prod : nsamples' # nsamples /\ prod[q].pc = "idle"},
             s \in Samples :
              OnNewSample(p, s) =>
                  /\ slots' = slots
                  /\ (s.width <= 0 \/ s.height <= 0) => prod'[p] = Returned
                  /\ prod'[p].pc # "idle" =>
                        /\ s.width > 0 /\ s.height > 0 /\ s.map_ok /\ s.present
                        /\ prod'[p].w = s.width /\ prod'[p].h = s.height
                        /\ Len(prod'[p].data) = s.width * s.height * 3
                  /\ (SlotInRange(p, slots) /\ s.present /\ s.map_ok
                        /\ s.width > 0 /\ s.height > 0) => prod'[p].pc = "lock"
        /\ \A p \in DOMAIN prod :
              PushMeta(p) =>
                  /\ slots'[p + 1].pending_frame = prod[p].data
                  /\ slots'[p + 1].pending_width = prod[p].w
                  /\ slots'[p + 1].pending_height = prod[p].h
                  /\ slots'[p + 1].frame_dirty
                  /\ prod'[p] = Returned
                  /\ \A q \in DOMAIN slots : q # p + 1 => slots'[q] = slots[q]
        /\ \A p \in DOMAIN prod :
              (prod[p].pc # "idle" /\ prod'[p].pc = "idle") =>
                  prod'[p].ret = "GST_FLOW_OK"
      ]_vars

\* C11's case: a callback has returned after overwriting a frame that was
\* still waiting in its slot
C11_Witness ==
    \E i \in DOMAIN slots :
        /\ latest[i].since >= 2
        /\ slots[i].frame_dirty
        /\ slots[i].mutex = "free"
        /\ slots[i].pending_frame = latest[i].data
        /\ prod[i - 1] = Returned

\* C12: a slot buffers at most one unconsumed frame, and its dirty flag is
\* true exactly when at least one push_frame to it has completed since the
\* last drain of it by render(): a drain never leaves the flag set, a push
\* never leaves it clear.  While the flag is set and no push is under way
\* the buffer is the last completed frame, whole, and nothing else.
C12_DirtyIffPushedSinceDrain ==
    \A i \in DOMAIN slots :
        /\ slots[i].frame_dirty <=> latest[i].since > 0
        /\ (slots[i].frame_dirty /\ slots[i].mutex # "producer") =>
              /\ slots[i].pending_frame = latest[i].data
              /\ slots[i].pending_width = latest[i].w
              /\ slots[i].pending_height = latest[i].h
              /\ Len(slots[i].pending_frame) =
                    slots[i].pending_width * slots[i].pending_height * 3

\* C12's case: a slot pushed to, drained and uploaded, and pushed to again
C12_Witness ==
    \E i \in DOMAIN slots :
        /\ slots[i].frame_dirty
        /\ latest[i].since = 1
        /\ slots[i].tex_data # <<>>
        /\ slots[i].tex_data # slots[i].pending_frame

\* C13: no slot ends a render pass.  Every render() call handles the slot
\* indices 0, 1, ..., N - 1 once each in increasing order, whether a slot had
\* no frame, was uploaded to, or was skipped undrawn, and then swaps the
\* buffers: the swap happens only after all N slots have been handled.
C13_PassCoversAllSlots ==
    /\ pass.order = [k \in 1..Len(pass.order) |-> k - 1]
    /\ Len(pass.order) <= Len(slots)
    /\ rpc \in {"lock", "copy", "upload", "draw"} =>
          /\ Len(pass.order) = ri
          /\ ri < Len(slots)
          /\ ~pass.swapped
    /\ rpc = "swap" => Len(pass.order) = Len(slots) /\ ~pass.swapped
    /\ pass.swapped => rpc = "idle" /\ Len(pass.order) = Len(slots)

\* C13's case: a completed pass over five slots that skipped the first four,
\* which have no frame, and drew the last
C13_Witness ==
    /\ Len(slots) = 5
    /\ pass.swapped
    /\ pass.order = <<0, 1, 2, 3, 4>>
    /\ \A i \in 1..4 : slots[i].tex_width = 0
    /\ slots[5].tex_width > 0

\* the ips of a registry, and the position of an ip in it
Ips(reg) == {reg[i].device_ip : i \in DOMAIN reg}
At(reg, ip) == CHOOSE i \in DOMAIN reg : reg[i].device_ip = ip

\* C14: the registry never holds two entries with the same ip; and a
\* successful probe of an ip already present changes that entry in place
\* (last_seen set to the time of the probe) and adds no entry.
C14_OneEntryPerIp ==
    /\ \A i, j \in DOMAIN discovered_streams_ :
          i # j => discovered_streams_[i].device_ip #
                   discovered_streams_[j].device_ip
    /\ (dlast.kind \in {"update", "insert"} /\ dlast.ip \in Ips(dlast.pre)) =>
          /\ dlast.kind = "update"
          /\ Len(discovered_streams_) = Len(dlast.pre)
          /\ LET i == At(dlast.pre, dlast.ip)
             IN  /\ discovered_streams_[i].device_ip = dlast.ip
                 /\ discovered_streams_[i].last_seen = dlast.at
                 /\ \A j \in DOMAIN dlast.pre :
                       j # i => discovered_streams_[j] = dlast.pre[j]

\* C14's case: two devices known, and one of them probed successfully again
C14_Witness ==
    /\ dlast.kind = "update"
    /\ Len(dlast.pre) = 2
    /\ Len(discovered_streams_) = 2
    /\ dlast.at > dlast.pre[At(dlast.pre, dlast.ip)].last_seen

\* C15: no step removes a registry entry or changes an entry's ip or url:
\* over scans, cleanups, start_discovery and stop_discovery the entries stay
\* at their positions and new ones are added behind them, and a cleanup
\* changes nothing but is_active.
C15_EntriesNeverRemoved ==
    [][ /\ Len(discovered_streams_') >= Len(discovered_streams_)
        /\ Ips(discovered_streams_) \subseteq Ips(discovered_streams_')
        /\ \A i \in DOMAIN discovered_streams_ :
              /\ discovered_streams_'[i].device_ip =
                    discovered_streams_[i].device_ip
              /\ discovered_streams_'[i].rtsp_url =
                    discovered_streams_[i].rtsp_url
        /\ (wpc = "sweep" /\ wpc' = "sleep") =>
              /\ Len(discovered_streams_') = Len(discovered_streams_)
              /\ \A i \in DOMAIN discovered_streams_ :
                    discovered_streams_'[i] =
                        [discovered_streams_[i] EXCEPT
                            !.is_active = discovered_streams_'[i].is_active]
        /\ (StartDiscovery \/ StopDiscovery \/ StopJoin) =>
              discovered_streams_' = discovered_streams_
      ]_vars

\* C15's case: discovery stopped and joined, with two entries in the
\* registry, one of which a cleanup has marked inactive
C15_Witness ==
    /\ starts = 1
    /\ ~running_
    /\ mpc = "idle"
    /\ discovery_thread_ = "none"
    /\ Len(discovered_streams_) = 2
    /\ \E i \in DOMAIN discovered_streams_ : ~discovered_streams_[i].is_active

\* C16: the cleanup at the end of a cycle leaves active every device that a
\* successful probe created or updated during that same cycle, however long
\* the scan took.
C16_CleanupSparesThisCycle ==
    dlast.kind = "cleanup" =>
        \A i \in DOMAIN discovered_streams_ :
            discovered_streams_[i].device_ip \in dlast.seen =>
                discovered_streams_[i].is_active

\* C17: an entry whose last_seen is not more than 60 s old is active, in
\* every state: a device found again each time before 60 s have passed is
\* never marked inactive.  A successful probe sets last_seen to the time of
\* the probe, which is never earlier than the last_seen it replaces, and no
\* last_seen lies in the future.
C17_FreshStaysActive ==
    /\ \A i \in DOMAIN discovered_streams_ :
          /\ discovered_streams_[i].last_seen <= now
          /\ now - discovered_streams_[i].last_seen <= STREAM_TIMEOUT_MS =>
                discovered_streams_[i].is_active
    /\ dlast.kind \in {"update", "insert"} =>
          LET e == discovered_streams_[At(discovered_streams_, dlast.ip)]
          IN  /\ e.last_seen = dlast.at
              /\ e.is_active
              /\ dlast.kind = "update" =>
                    e.last_seen >= dlast.pre[At(dlast.pre, dlast.ip)].last_seen
    /\ dlast.kind = "cleanup" =>
          \A i \in DOMAIN dlast.pre :
              (dlast.pre[i].is_active /\
               dlast.at - dlast.pre[i].last_seen <= STREAM_TIMEOUT_MS) =>
                  discovered_streams_[i].is_active

\* C17's case: an active device found again 30 s after it was last seen, in
\* a later cycle, after a cleanup that left it active
C17_Witness ==
    /\ dlast.kind = "update"
    /\ cycles = 2
    /\ LET old == dlast.pre[At(dlast.pre, dlast.ip)]
       IN  /\ old.is_active
           /\ dlast.at - old.last_seen = DISCOVERY_INTERVAL_MS
    /\ discovered_streams_[At(discovered_streams_, dlast.ip)].is_active
    /\ discovered_streams_[At(discovered_streams_, dlast.ip)].last_seen = now

\* C18: every cleanup pass marks inactive each active entry whose last_seen
\* is more than 60 s old, leaves active each entry that is not older, changes
\* no inactive entry, and keeps every entry in the registry; so after a
\* cleanup no active entry is older than 60 s, and a device that is no longer
\* found is inactive from the first cleanup that runs more than 60 s after
\* it was last seen.
C18_CleanupMarksStale ==
    dlast.kind = "cleanup" =>
        /\ Len(discovered_streams_) = Len(dlast.pre)
        /\ \A i \in DOMAIN dlast.pre :
              LET old   == dlast.pre[i]
                  stale == dlast.at - old.last_seen > STREAM_TIMEOUT_MS
              IN  /\ discovered_streams_[i] =
                        [old EXCEPT !.is_active = old.is_active /\ ~stale]
                  /\ discovered_streams_[i].is_active =>
                        dlast.at - discovered_streams_[i].last_seen <= 60000

\* C18's case: a cleanup that marks inactive a device which no probe found
\* during the cycle, and leaves a fresher entry active
C18_Witness ==
    /\ dlast.kind = "cleanup"
    /\ \E i \in DOMAIN dlast.pre :
          /\ dlast.pre[i].is_active
          /\ ~discovered_streams_[i].is_active
          /\ dlast.pre[i].device_ip \notin dlast.seen
    /\ \E j \in DOMAIN dlast.pre : discovered_streams_[j].is_active

\* C19: a successful probe of an ip whose entry is inactive makes that entry
\* active again with last_seen the time of the probe, adds no entry, and the
\* device is among get_active_streams again; a successful probe of an ip
\* not in the registry appends exactly one entry, with that ip, the url
\* "rtsp://<ip>:554/", last_seen the time of the probe, and active.
C19_ProbeRevivesOrInserts ==
    /\ (dlast.kind \in {"update", "insert"} /\ dlast.ip \in Ips(dlast.pre)) =>
          LET i == At(dlast.pre, dlast.ip)
              active == GetActiveStreams(discovered_streams_)
          IN  /\ dlast.kind = "update"
              /\ Len(discovered_streams_) = Len(dlast.pre)
              /\ discovered_streams_[i].is_active
              /\ discovered_streams_[i].last_seen = dlast.at
              /\ \E k \in DOMAIN active : active[k] = discovered_streams_[i]
              /\ Cardinality({k \in DOMAIN active :
                                active[k].device_ip = dlast.ip}) = 1
    /\ (dlast.kind \in {"update", "insert"} /\ dlast.ip \notin Ips(dlast.pre)) =>
          /\ dlast.kind = "insert"
          /\ Len(discovered_streams_) = Len(dlast.pre) + 1
          /\ SubSeq(discovered_streams_, 1, Len(dlast.pre)) = dlast.pre
          /\ LET e == discovered_streams_[Len(discovered_streams_)]
             IN  /\ e.device_ip = dlast.ip
                 /\ e.rtsp_url = "rtsp://" \o dlast.ip \o ":554/"
                 /\ e.is_active
                 /\ e.last_seen = dlast.at
                 /\ dlast.ip = "192.168.1.254" =>
                       e.rtsp_url = "rtsp://192.168.1.254:554/"

\* C19's case: a device that a cleanup had marked inactive is found again
C19_Witness ==
    /\ dlast.kind = "update"
    /\ ~dlast.pre[At(dlast.pre, dlast.ip)].is_active
    /\ discovered_streams_[At(discovered_streams_, dlast.ip)].is_active
    /\ Len(GetActiveStreams(discovered_streams_)) =
          Len(GetActiveStreams(dlast.pre)) + 1

\* what C20 says of every state: once stop_discovery has cleared running_,
\* the worker passes no loop test that begins a probe, finishes at most the
\* one probe whose test came before, begins no further sleep of 100 ms and
\* finishes at most the one that was under way
C20_NoNewWork ==
    /\ after_stop.begun = 0
    /\ after_stop.done <= 1
    /\ after_stop.sleeps = 0
    /\ after_stop.slept <= 1
    /\ after_stop.done + after_stop.slept <= 1
    /\ (mpc = "join" /\ wpc = "probe") => after_stop.done = 0

\* C20: cooperative stop.  After stop_discovery has cleared running_ the
\* worker begins no probe, finishing at most the one whose loop test came
\* before the request, also with interfaces left to scan; it leaves the wait
\* between cycles at its next test; and it terminates, so that the join
\* returns and stop_discovery with it, given that every probe returns.
C20_CooperativeStop ==
    /\ []C20_NoNewWork
    /\ (mpc = "join") ~> (mpc = "idle" /\ discovery_thread_ = "none")

\* C20's case: stop_discovery has returned; it was called during a probe on
\* the first of two subnets, and the worker finished that probe and no other
C20_Witness ==
    /\ mpc = "idle"
    /\ ~running_
    /\ starts = 1
    /\ discovery_thread_ = "none"
    /\ after_stop.done = 1
    /\ Len(net.ifaces) = 5
    /\ now = 0
    /\ cycles = 1

(***************************************************************************)
(* C21: the service is Idle (running_ false, no thread) or Running (one    *)
(* live worker): start_discovery while Running and stop_discovery while    *)
(* Idle change nothing, there is never a second worker, once               *)
(* stop_discovery has returned no worker is alive and the registry stays   *)
(* as it is, and a later start_discovery spawns a fresh worker at the top  *)
(* of discovery_worker on the registry as it was left.                     *)
(***************************************************************************)
C21_Idle == ~running_ /\ mpc = "idle"

C21_OneWorker ==
    /\ discovery_thread_ \in {"none", "running", "finished"}
    /\ (wpc = "none") <=> (discovery_thread_ = "none")
    /\ running_ => discovery_thread_ = "running" /\ wpc \notin {"none", "done"}
    /\ C21_Idle => /\ discovery_thread_ = "none"
                   /\ wpc = "none"
                   /\ streams_mutex_ # "worker"

C21_Step ==
    /\ C21_OneWorker'
    /\ (running_ /\ StartDiscovery) => UNCHANGED dvars
    /\ (~running_ /\ StopDiscovery) => UNCHANGED dvars
    /\ C21_Idle => discovered_streams_' = discovered_streams_
    /\ (~running_ /\ running_') =>
          /\ C21_Idle
          /\ wpc' = "top"
          /\ discovery_thread_' = "running"
          /\ starts' = starts + 1
    /\ (running_ /\ ~running_') => mpc' = "join"
    /\ (mpc = "join" /\ mpc' = "idle") => C21_Idle'

C21_IdleRunningIdle == C21_OneWorker /\ [][C21_Step]_vars

\* the second worker has updated an entry the first worker inserted
C21_Witness ==
    /\ starts = 2
    /\ cycles = 2
    /\ running_
    /\ dlast.kind = "update"
    /\ Len(dlast.pre) = 1

(***************************************************************************)
(* C22: CpuBackend::process returns false whenever the backend is not      *)
(* prepared, that is unless the most recent prepare() returned true and    *)
(* teardown() has not been called since.                                   *)
(***************************************************************************)
C22_ProcessFalseUnlessPrepared ==
    (blast.op = "process" /\ ~blast.prepared) => blast.ret = "false"

(***************************************************************************)
(* C23: render() holds a slot's mutex only inside the copy block: every    *)
(* GPU operation (the clear, the texture allocation or update, the         *)
(* viewport and the draw, the swap) runs with no slot mutex held by the    *)
(* render thread, and the render thread never holds two.                   *)
(***************************************************************************)
C23_HeldByRender == {i \in DOMAIN slots : slots[i].mutex = "render"}

C23_NoGpuUnderLock ==
    /\ Cardinality(C23_HeldByRender) <= 1
    /\ rpc = "copy" => C23_HeldByRender = {ri + 1}
    /\ rpc # "copy" => C23_HeldByRender = {}

\* the upload of a copied frame is about to run while the producer of the
\* same slot already holds the mutex for its next frame
C23_Witness ==
    /\ rpc = "upload"
    /\ upload.buf # <<>>
    /\ slots[ri + 1].mutex = "producer"
    /\ prod[ri].pc = "assign"

(***************************************************************************)
(* C24: the lock is per slot.  A producer inside push_frame for slot i     *)
(* holds the mutex of slot i and of no other slot, the render thread holds *)
(* the mutex of slot i exactly while it drains slot i, so pending buffer,  *)
(* pending size and dirty flag of a slot are only touched under that       *)
(* slot's mutex; and a producer waiting to lock slot i waits for nothing   *)
(* but the render thread's copy of slot i, whatever the producers and the  *)
(* render thread do on the other slots.                                    *)
(***************************************************************************)
C24_PerSlotLocking ==
    \A p \in DOMAIN prod :
        p + 1 \in DOMAIN slots =>
            /\ (slots[p + 1].mutex = "producer")
                   <=> (prod[p].pc \in {"assign", "meta"})
            /\ (slots[p + 1].mutex = "render") <=> (rpc = "copy" /\ ri = p)
            /\ (prod[p].pc = "lock" /\ ~(rpc = "copy" /\ ri = p))
                   => ENABLED PushLock(p)

\* the producer of slot 0 writes its pending buffer while the render thread
\* drains slot 1 and the producer of slot 1 waits for that
C24_Witness ==
    /\ Len(slots) = 2
    /\ prod[0].pc = "assign"
    /\ rpc = "copy"
    /\ ri = 1
    /\ prod[1].pc = "lock"

(***************************************************************************)
(* C25: when render() uploads a copied frame it allocates the texture anew *)
(* if and only if the frame's size differs from the slot's tex_width and   *)
(* tex_height, and updates it in place otherwise; after the upload the     *)
(* slot's tex_width and tex_height are the frame's; and no step other than *)
(* render()'s upload changes tex_width or tex_height of any slot.          *)
(***************************************************************************)
C25_Upload == rpc = "upload" /\ rpc' = "draw"

C25_Step ==
    /\ C25_Upload =>
          LET s == slots[ri + 1]
              t == slots'[ri + 1]
              differ == upload.w # s.tex_width \/ upload.h # s.tex_height
          IN  IF upload.buf # <<>>
              THEN /\ (upload'.kind = "alloc") <=> differ
                   /\ (upload'.kind = "sub") <=> ~differ
                   /\ t.tex_width = upload.w
                   /\ t.tex_height = upload.h
                   /\ t.tex_data = upload.buf
              ELSE /\ upload'.kind = "none"
                   /\ t = s
    /\ ~C25_Upload =>
          \A i \in DOMAIN slots :
              /\ slots'[i].tex_width = slots[i].tex_width
              /\ slots'[i].tex_height = slots[i].tex_height
              /\ slots'[i].tex_data = slots[i].tex_data

C25_ReallocIffSizeDiffers == [][C25_Step]_vars

\* a second frame of the same size has been uploaded in place
C25_Witness ==
    /\ pass.ev.slot = 0
    /\ pass.ev.upload.kind = "sub"
    /\ pass.ev.tex_before = pass.ev.tex_after
    /\ pass.ev.tex_after.w > 0

(***************************************************************************)
(* C26: the worker holds the registry mutex only while it records a found  *)
(* device and while it sweeps, never during a probe, so a reader waiting   *)
(* for the mutex waits for one of those two and not for the network; and   *)
(* what get_active_streams returns is, in order, exactly the entries that  *)
(* were active in the registry while it held the mutex, a registry that    *)
(* did not change under it.                                                *)
(***************************************************************************)
C26_ActiveOf(reg) == SelectSeq(reg, LAMBDA e : e.is_active)

C26_ReadersNeverWaitOnProbes ==
    /\ wpc = "probe" => streams_mutex_ # "worker"
    /\ (streams_mutex_ = "worker") <=> (wpc \in {"record", "sweep"})
    /\ (streams_mutex_ = "reader") <=> (reader.pc = "copy")
    /\ (reader.pc = "lock" /\ streams_mutex_ # "free")
           => wpc \in {"record", "sweep"}
    /\ reader.pc = "copy" =>
           /\ discovered_streams_ = reader.held
           /\ reader.view = C26_ActiveOf(SubSeq(reader.held, 1, reader.i - 1))
    /\ (reader.pc = "idle" /\ reader.reads > 0)
           => reader.view = C26_ActiveOf(reader.held)

\* a call has returned one of two entries, the other one being inactive, and
\* the worker has gone on
C26_Witness ==
    /\ reader.pc = "idle"
    /\ reader.reads = 1
    /\ Len(reader.held) = 2
    /\ Len(reader.view) = 1
    /\ wpc = "sleep"

(***************************************************************************)
(* C27: whenever start() returns true the worker is playing, after any     *)
(* sequence of start() and stop() calls and whatever the construction of   *)
(* the pipeline and its change to PLAYING do.                              *)
(***************************************************************************)
C27_StartTrueMeansPlaying ==
    (last.op = "start" /\ last.ret = TRUE) => is_playing(stream)

(***************************************************************************)
(* C28: no torn frames.  What render() copies out of a slot is the buffer  *)
(* and the width and height of one push_frame call, the last one that      *)
(* completed on that slot: never the buffer of one call with the size of   *)
(* another, and never a slot a producer is in the middle of writing.  So   *)
(* the copied buffer holds width * height * 3 bytes.                       *)
(***************************************************************************)
C28_NoTornFrames ==
    /\ Len(upload.buf) = upload.w * upload.h * 3
    /\ \A j \in DOMAIN upload.buf : upload.buf[j] = upload.buf[1]
    /\ upload.buf # <<>> =>
          /\ upload.buf = mark.data
          /\ upload.w = mark.w
          /\ upload.h = mark.h
    /\ rpc = "copy" =>
          /\ prod[ri].pc \notin {"assign", "meta"}
          /\ slots[ri + 1].frame_dirty =>
                /\ slots[ri + 1].pending_frame = latest[ri + 1].data
                /\ slots[ri + 1].pending_width = latest[ri + 1].w
                /\ slots[ri + 1].pending_height = latest[ri + 1].h

\* render() holds a whole frame it copied while the slot's producer, half
\* way through its next push, has replaced the buffer but not yet the size
C28_Witness ==
    /\ rpc = "upload"
    /\ upload.buf # <<>>
    /\ prod[ri].pc = "meta"
    /\ slots[ri + 1].pending_frame = prod[ri].data
    /\ slots[ri + 1].pending_width # prod[ri].w
    /\ slots[ri + 1].pending_width = upload.w

(***************************************************************************)
(* C29: push_frame with a slot index outside [0, N) changes no slot.  The  *)
(* stream registered with index N never gets past push_frame's range test: *)
(* each of its callbacks returns with every slot, and the record of what   *)
(* each slot last received, as it was, so its frames are never displayed   *)
(* and never disturb slots 0..N-1.                                         *)
(***************************************************************************)
C29_Outside == Len(slots)

C29_Step ==
    /\ \A s \in Samples :
          OnNewSample(C29_Outside, s) =>
              /\ slots' = slots
              /\ latest' = latest
              /\ prod'[C29_Outside] = Returned
    /\ prod'[C29_Outside] # prod[C29_Outside] => slots' = slots

C29_OutOfRangePushIsNoOp ==
    /\ [](prod[C29_Outside].pc = "idle")
    /\ [][C29_Step]_vars

\* only the stream with index N has delivered frames, and a render pass has
\* been completed since: the slot still shows nothing
C29_Witness ==
    /\ nsamples >= 1
    /\ prod[C29_Outside] = Returned
    /\ prod[0] = Idle
    /\ pass.swapped
    /\ \A i \in DOMAIN slots :
          slots[i].tex_width = 0 /\ slots[i].pending_frame = <<>>

====
